---- MODULE Spec2Model ----
(***************************************************************************)
(* Sliding-window rate limiter of apps/studio/src/lib/rate-limit.ts.       *)
(*                                                                         *)
(* The module-level Map rateLimitStore is shared by every RateLimiter      *)
(* instance; each call of check / increment / reset / getStatus and each   *)
(* run of the cleanupStore timer callback is one atomic step (one          *)
(* event-loop task).  Date.now() is the variable now; it never decreases.  *)
(*                                                                         *)
(* Role-based permissions of packages/core: the table ROLE_PERMISSIONS and *)
(* the functions hasPermission, assertPermission and getRolePermissions,   *)
(* which are pure; permCall holds the latest call and its outcome.         *)
(*                                                                         *)
(* RaceSpec takes check apart into its read, its limit test and its        *)
(* write-back, interleaved between threads; RouteSpec serves requests      *)
(* through the POST handlers of the pusher endpoints; CollideSpec and      *)
(* LongSpec construct limiters whose store keys coincide and whose window  *)
(* exceeds the hour the sweep keeps.                                       *)
(***************************************************************************)
EXTENDS Integers, Sequences, FiniteSets, TLC

VARIABLES
    rateLimitStore,   \* Map<string, RequestRecord[]>: a function on the stored keys
    now,              \* the reading of Date.now(), in milliseconds
    limiters,         \* the RateLimiter instances that have been constructed
    callers,          \* the <<limiter, key>> pairs the callers use (key: user id, IP address)
    watched,          \* the <<limiter, key>> pair whose history is recorded
    lastOp,           \* history: the latest call on the watched pair, what it returned,
                      \* and which call on the pair came before it
    accepted,         \* history: timestamps of the accepted checks on the watched pair
                      \* since its last reset
    run,              \* history: the run of check calls on the watched pair that began
                      \* on a key without stored records
    permCall,         \* the latest call of the permission functions: its arguments
                      \* and its outcome
    inFlight          \* per thread, the check call it is inside when the steps of
                      \* check interleave: its position and its local variables

vars == <<rateLimitStore, now, limiters, callers, watched, lastOp, accepted, run,
          permCall, inFlight>>

-----------------------------------------------------------------------------
(* Bounds of the model and constants of the program *)

\* spacing of the sampled clock readings, in milliseconds
TickMs == 750
\* clock readings sampled from the start of the run: 0, TickMs, ..., MaxTicks * TickMs
MaxTicks == 2
\* check calls followed in one run on a key (a run of more calls is not extended)
MaxRun == 4
\* threads inside check at once, when its steps are taken to interleave
MaxThreads == 2

\* Math.ceil((resetTime - now) / 1000)
MsPerSecond == 1000
\* status: 429
TooManyRequests == 429
\* now - 60 * 60 * 1000
OneHour == 60 * 60 * 1000

\* the sampled clock readings: the first ticks, and a reading one hour after the
\* second of them (the record of that tick has then aged to exactly one hour, the
\* records of later ticks to less)
Instants ==
    {i * TickMs : i \in 0..MaxTicks} \cup {OneHour + TickMs}

-----------------------------------------------------------------------------
(* Helpers: Array and Map operations, Math *)

\* records.filter(record => record.timestamp > bound)
FilterAfter(records, bound) ==
    SelectSeq(records, LAMBDA record : record.timestamp > bound)

\* validRecords.reduce((sum, record) => sum + record.count, 0)
RECURSIVE SumCount(_)
SumCount(records) ==
    IF records = <<>> THEN 0
    ELSE Head(records).count + SumCount(Tail(records))

\* Math.max(a, b)
Max(a, b) == IF a >= b THEN a ELSE b

\* Math.ceil(a / b) for b > 0, also for negative a
Ceil(a, b) == -((-a) \div b)

\* rateLimitStore.get(key) || []
MapGet(store, key) == IF key \in DOMAIN store THEN store[key] ELSE <<>>

\* rateLimitStore.set(key, value)
MapSet(store, key, value) ==
    [x \in DOMAIN store \cup {key} |-> IF x = key THEN value ELSE store[x]]

\* rateLimitStore.delete(key)
MapDelete(store, key) == [x \in DOMAIN store \ {key} |-> store[x]]

-----------------------------------------------------------------------------
(* RateLimiter *)

\* constructor: identifier = config.identifier || "default"; the empty string
\* stands for an identifier that is omitted or empty (both are falsy)
RateLimiter(config) ==
    [maxRequests |-> config.maxRequests,
     windowMs    |-> config.windowMs,
     identifier  |-> IF config.identifier = "" THEN "default" ELSE config.identifier]

\* mutant: the store key leaves out the requester's key
StoreKeyWithoutKey(limiter, key) == limiter.identifier \o ":"

\* mutant: the store key leaves out the limiter's identifier
StoreKeyWithoutIdentifier(limiter, key) == "default" \o ":" \o key

\* mutant: an empty key falls back to the key of another requester
StoreKeyEmptyAsUser(limiter, key) ==
    limiter.identifier \o ":" \o (IF key = "" THEN "user1" ELSE key)

\* `${this.identifier}:${key}`
StoreKey(limiter, key) == limiter.identifier \o ":" \o key

\* const windowStart = now - this.windowMs
WindowStart(t, limiter) == t - limiter.windowMs

\* mutant: expired records are never dropped
ValidRecordsKeepAll(records, t, limiter) == records

\* mutant: a record aged exactly windowMs still counts
ValidRecordsInclusive(records, t, limiter) ==
    SelectSeq(records, LAMBDA record : record.timestamp >= WindowStart(t, limiter))

\* records.filter(record => record.timestamp > windowStart)
ValidRecords(records, t, limiter) == FilterAfter(records, WindowStart(t, limiter))

\* mutant: the limit test off by one
LimitExceededOffByOne(totalRequests, limiter) == totalRequests > limiter.maxRequests

\* if (totalRequests >= this.maxRequests)
LimitExceeded(totalRequests, limiter) == totalRequests >= limiter.maxRequests

\* oldestRecord ? oldestRecord.timestamp + this.windowMs : now + this.windowMs
ResetTime(validRecords, t, limiter) ==
    IF validRecords # <<>>
    THEN validRecords[1].timestamp + limiter.windowMs
    ELSE t + limiter.windowMs

\* mutant: the seconds to wait are rounded down
RetryAfterFloor(resetTime, t) == (resetTime - t) \div MsPerSecond

\* Math.ceil((resetTime - now) / 1000)
RetryAfter(resetTime, t) == Ceil(resetTime - t, MsPerSecond)

\* mutant: the record is stamped a millisecond ahead of the clock
PushedAhead(validRecords, t) == Append(validRecords, [timestamp |-> t + 1, count |-> 1])

\* mutant: the record of an accepted call does not count
PushedUncounted(validRecords, t) == Append(validRecords, [timestamp |-> t, count |-> 0])

\* the list check stores on acceptance: validRecords.push({timestamp: now, count: 1})
Pushed(validRecords, t) == Append(validRecords, [timestamp |-> t, count |-> 1])

\* mutant: the call being accepted is left out of the remaining capacity
RemainingAfterWithoutCall(totalRequests, limiter) ==
    Max(0, limiter.maxRequests - totalRequests)

\* Math.max(0, this.maxRequests - (totalRequests + 1))
RemainingAfter(totalRequests, limiter) ==
    Max(0, limiter.maxRequests - (totalRequests + 1))

\* mutant: the rejected attempt is recorded too
RejectedStoreRecorded(store, storeKey, validRecords, t) ==
    MapSet(store, storeKey, Append(validRecords, [timestamp |-> t, count |-> 1]))

\* the store a rejected check leaves: it returns before any rateLimitStore.set
RejectedStore(store, storeKey, validRecords, t) == store

\* check(key): the store after the call and the value returned
CheckCall(store, t, limiter, key) ==
    LET storeKey      == StoreKey(limiter, key)
        records       == MapGet(store, storeKey)
        validRecords  == ValidRecords(records, t, limiter)
        totalRequests == SumCount(validRecords)
    IN  IF LimitExceeded(totalRequests, limiter)
        THEN LET resetTime == ResetTime(validRecords, t, limiter)
             IN  [store |-> RejectedStore(store, storeKey, validRecords, t),
                  ret   |-> [allowed |-> FALSE, remaining |-> 0, reset |-> resetTime,
                             retryAfter |-> <<RetryAfter(resetTime, t)>>]]
        ELSE [store |-> MapSet(store, storeKey, Pushed(validRecords, t)),
              ret   |-> [allowed |-> TRUE,
                         remaining |-> RemainingAfter(totalRequests, limiter),
                         reset |-> t + limiter.windowMs, retryAfter |-> <<>>]]

\* mutant: reset deletes nothing
ResetCallNothing(store, limiter, key) == store

\* mutant: reset clears the whole store
ResetCallClear(store, limiter, key) == << >>

\* mutant: increment records a request without the limit test
IncrementCallAlways(store, t, limiter, key) ==
    MapSet(store, StoreKey(limiter, key),
           Pushed(ValidRecords(MapGet(store, StoreKey(limiter, key)), t, limiter), t))

\* increment(key): this.check(key), nothing returned; the store after the call
IncrementCall(store, t, limiter, key) == CheckCall(store, t, limiter, key).store

\* reset(key): the store after the call
ResetCall(store, limiter, key) == MapDelete(store, StoreKey(limiter, key))

\* mutant: getStatus writes the filtered list back
StatusStorePruned(store, storeKey, validRecords, t) ==
    MapSet(store, storeKey, validRecords)

\* mutant: getStatus records a request, as check does
StatusStoreCounted(store, storeKey, validRecords, t) ==
    MapSet(store, storeKey, Append(validRecords, [timestamp |-> t, count |-> 1]))

\* the store getStatus leaves: it makes no rateLimitStore.set or delete
StatusStore(store, storeKey, validRecords, t) == store

\* Math.max(0, this.maxRequests - totalRequests)
StatusRemaining(totalRequests, limiter) == Max(0, limiter.maxRequests - totalRequests)

\* validRecords[0] ? validRecords[0].timestamp + this.windowMs : now + this.windowMs
StatusResetTime(validRecords, t, limiter) ==
    IF validRecords # <<>>
    THEN validRecords[1].timestamp + limiter.windowMs
    ELSE t + limiter.windowMs

\* getStatus(key): the store after the call and the value returned
GetStatusCall(store, t, limiter, key) ==
    LET storeKey      == StoreKey(limiter, key)
        records       == MapGet(store, storeKey)
        windowStart   == t - limiter.windowMs
        validRecords  == FilterAfter(records, windowStart)
        totalRequests == SumCount(validRecords)
    IN  [store |-> StatusStore(store, storeKey, validRecords, t),
         ret   |-> [currentRequests |-> totalRequests,
                    remaining |-> StatusRemaining(totalRequests, limiter),
                    reset |-> StatusResetTime(validRecords, t, limiter)]]

\* String(n) of a non-negative integer: its decimal digits
Digit(d) ==
    CASE d = 0 -> "0" [] d = 1 -> "1" [] d = 2 -> "2" [] d = 3 -> "3" [] d = 4 -> "4"
      [] d = 5 -> "5" [] d = 6 -> "6" [] d = 7 -> "7" [] d = 8 -> "8" [] d = 9 -> "9"

RECURSIVE String(_)
String(n) == IF n < 10 THEN Digit(n) ELSE String(n \div 10) \o Digit(n % 10)

\* mutant: the handler calls check a second time and answers with its result
HandlerCheckTwice(store, t, rateLimiter, identifier) ==
    CheckCall(CheckCall(store, t, rateLimiter, identifier).store, t, rateLimiter, identifier)

\* const result = rateLimiter.check(identifier)
HandlerCheck(store, t, rateLimiter, identifier) ==
    CheckCall(store, t, rateLimiter, identifier)

\* new Response(JSON.stringify({error, retryAfter}), {status: 429, headers}):
\* the body is kept as the object that is serialised
TooManyRequestsResponse(result, rateLimiter) ==
    [status  |-> TooManyRequests,
     body    |-> [error |-> "Too many requests", retryAfter |-> result.retryAfter[1]],
     headers |-> ( "Content-Type" :> "application/json"
                @@ "Retry-After" :> String(result.retryAfter[1])
                @@ "X-RateLimit-Limit" :> String(rateLimiter.maxRequests)
                @@ "X-RateLimit-Remaining" :> "0"
                @@ "X-RateLimit-Reset" :> String(result.reset) )]

\* the handler withRateLimit(rateLimiter, getIdentifier) returns, called with a
\* request that getIdentifier resolves to identifier: the store after the call
\* and the response, <<>> for null
WithRateLimitCall(store, t, rateLimiter, identifier) ==
    LET call == HandlerCheck(store, t, rateLimiter, identifier)
    IN  [store    |-> call.store,
         response |-> IF ~call.ret.allowed
                      THEN <<TooManyRequestsResponse(call.ret, rateLimiter)>>
                      ELSE <<>>]

\* mutant: the sweep keeps the keys whose lists it has emptied
SweepCallKeepsEmpty(store, t) ==
    [key \in DOMAIN store |-> FilterAfter(store[key], t - OneHour)]

\* cleanupStore(): the store after one run of the timer callback
SweepCall(store, t) ==
    LET oneHourAgo == t - OneHour
        kept == {key \in DOMAIN store : FilterAfter(store[key], oneHourAgo) # <<>>}
    IN  [key \in kept |-> FilterAfter(store[key], oneHourAgo)]

-----------------------------------------------------------------------------
(* The endpoints in front of the pub/sub transport *)

\* getRequestIdentifier(request, userId): the user id when there is one, else
\* the first address found in the proxy headers (request.ip, "" when none has
\* one), else "unknown"
getRequestIdentifier(request, userId) ==
    IF userId # "" THEN userId
    ELSE IF request.ip # "" THEN request.ip
    ELSE "unknown"

\* NextResponse.json(body, {status, headers}): the status and the headers
NextResponse(status, headers) == [status |-> status, headers |-> headers]

\* the outcome of one request: the store it leaves, the calls the handler
\* made in their order, the result of the limiter check if one was made,
\* and the response
Handled(store, events, check, response) ==
    [store |-> store, events |-> events, check |-> check, response |-> response]

\* the part of the four handlers after the rate limiting: the body is
\* validated, assertComponentAccess is called (a throw ends in the catch
\* block) and then the transport
Proxied(store, events, check, request, transport, headers) ==
    IF ~request.valid
    THEN Handled(store, events, check, NextResponse(400, << >>))
    ELSE IF ~request.access
    THEN Handled(store, Append(events, "assertComponentAccess"), check,
                 NextResponse(500, << >>))
    ELSE Handled(store, events \o <<"assertComponentAccess", transport>>, check,
                 NextResponse(200, headers))

\* POST without rate limiting: auth(), then validation, access and transport
PlainPOST(store, t, pusher, request, transport) ==
    IF request.user = ""
    THEN Handled(store, <<"auth">>, <<>>, NextResponse(401, << >>))
    ELSE Proxied(store, <<"auth">>, <<>>, request, transport, << >>)

\* POST with rate limiting: auth(), rateLimiters.pusher.check(identifier), the
\* 429 response when the check rejects, then validation, access and transport
LimitedPOST(store, t, pusher, request, transport) ==
    IF request.user = ""
    THEN Handled(store, <<"auth">>, <<>>, NextResponse(401, << >>))
    ELSE LET call == CheckCall(store, t, pusher,
                               getRequestIdentifier(request, request.user))
             events == <<"auth", "rateLimiters.pusher.check">>
         IN  IF ~call.ret.allowed
             THEN Handled(call.store, events, <<call.ret>>,
                          NextResponse(TooManyRequests,
                              ( "Retry-After" :> String(call.ret.retryAfter[1])
                             @@ "X-RateLimit-Limit" :> "60"
                             @@ "X-RateLimit-Remaining" :> "0"
                             @@ "X-RateLimit-Reset" :> String(call.ret.reset) )))
             ELSE Proxied(call.store, events, <<call.ret>>, request, transport,
                          ( "X-RateLimit-Limit" :> "60"
                         @@ "X-RateLimit-Remaining" :> String(call.ret.remaining)
                         @@ "X-RateLimit-Reset" :> String(call.ret.reset) ))

\* the POST handlers of the pusher endpoints in the sources
Routes ==
    {"api/pusher/auth/route.ts", "pusher auth with rate limiting",
     "pusher trigger", "pusher trigger with rate limiting"}

\* the transport function a handler calls
Transport(route) ==
    IF route \in {"api/pusher/auth/route.ts", "pusher auth with rate limiting"}
    THEN "authenticatePresenceChannel"
    ELSE "triggerCollaborativeEdit"

\* POST(req) of a route
POST(route, store, t, pusher, request) ==
    IF route \in {"pusher auth with rate limiting", "pusher trigger with rate limiting"}
    THEN LimitedPOST(store, t, pusher, request, Transport(route))
    ELSE PlainPOST(store, t, pusher, request, Transport(route))

\* the requests: the session's user id ("" without a session), the address in
\* the proxy headers, whether the body passes validation and whether
\* assertComponentAccess passes
Requests ==
    [user : {"", "user1"}, ip : {"10.0.0.1"}, valid : BOOLEAN, access : BOOLEAN]

-----------------------------------------------------------------------------
(* Role-based permissions *)

\* mutant: the viewer entry of the table lists the view permissions only
RolePermissionsViewerPartial ==
    [owner |->
        [permission \in
            {"can_update_workspace", "can_delete_workspace", "can_make_workspace_public",
             "can_add_members", "can_remove_members", "can_change_member_roles",
             "can_send_invitations", "can_create_components", "can_update_components",
             "can_delete_components", "can_set_canonical_version",
             "can_view_components", "can_view_analytics", "can_view_activity"} |-> TRUE],
     editor |->
        [permission \in
            {"can_update_workspace", "can_delete_workspace", "can_make_workspace_public",
             "can_add_members", "can_remove_members", "can_change_member_roles",
             "can_send_invitations", "can_create_components", "can_update_components",
             "can_delete_components", "can_set_canonical_version",
             "can_view_components", "can_view_analytics", "can_view_activity"} |->
                permission \in {"can_create_components", "can_update_components",
                                "can_delete_components", "can_set_canonical_version",
                                "can_view_components", "can_view_analytics",
                                "can_view_activity"}],
     viewer |->
        [can_view_components |-> TRUE, can_view_analytics |-> TRUE,
         can_view_activity |-> TRUE]]

ROLE_PERMISSIONS ==
    [owner |->
        [can_update_workspace |-> TRUE, can_delete_workspace |-> TRUE,
         can_make_workspace_public |-> TRUE,
         can_add_members |-> TRUE, can_remove_members |-> TRUE,
         can_change_member_roles |-> TRUE, can_send_invitations |-> TRUE,
         can_create_components |-> TRUE, can_update_components |-> TRUE,
         can_delete_components |-> TRUE, can_set_canonical_version |-> TRUE,
         can_view_components |-> TRUE, can_view_analytics |-> TRUE,
         can_view_activity |-> TRUE],
     editor |->
        [can_update_workspace |-> FALSE, can_delete_workspace |-> FALSE,
         can_make_workspace_public |-> FALSE,
         can_add_members |-> FALSE, can_remove_members |-> FALSE,
         can_change_member_roles |-> FALSE, can_send_invitations |-> FALSE,
         can_create_components |-> TRUE, can_update_components |-> TRUE,
         can_delete_components |-> TRUE, can_set_canonical_version |-> TRUE,
         can_view_components |-> TRUE, can_view_analytics |-> TRUE,
         can_view_activity |-> TRUE],
     viewer |->
        [can_update_workspace |-> FALSE, can_delete_workspace |-> FALSE,
         can_make_workspace_public |-> FALSE,
         can_add_members |-> FALSE, can_remove_members |-> FALSE,
         can_change_member_roles |-> FALSE, can_send_invitations |-> FALSE,
         can_create_components |-> FALSE, can_update_components |-> FALSE,
         can_delete_components |-> FALSE, can_set_canonical_version |-> FALSE,
         can_view_components |-> TRUE, can_view_analytics |-> TRUE,
         can_view_activity |-> TRUE]]

\* type WorkspaceRole = "owner" | "editor" | "viewer"
WorkspaceRole == {"owner", "editor", "viewer"}

\* type Permission = keyof typeof ROLE_PERMISSIONS.owner
Permission == DOMAIN ROLE_PERMISSIONS.owner

\* mutant: editors may send invitations
hasPermissionEditorInvites(role, permission) ==
    IF role = "editor" /\ permission = "can_send_invitations"
    THEN TRUE
    ELSE ROLE_PERMISSIONS[role][permission]

\* mutant: editors may not view analytics
hasPermissionEditorBlind(role, permission) ==
    IF role = "editor" /\ permission = "can_view_analytics"
    THEN FALSE
    ELSE ROLE_PERMISSIONS[role][permission]

\* return ROLE_PERMISSIONS[role][permission]
hasPermission(role, permission) == ROLE_PERMISSIONS[role][permission]

\* mutant: the message names the permission even when an action is given
assertPermissionIgnoresAction(role, permission, action) ==
    IF ~hasPermission(role, permission)
    THEN [threw   |-> TRUE,
          message |-> "PERMISSION_DENIED: " \o role
                      \o " role does not have permission to " \o permission]
    ELSE [threw |-> FALSE, message |-> ""]

\* mutant: only viewers are ever denied
assertPermissionViewersOnly(role, permission, action) ==
    IF ~hasPermission(role, permission) /\ role = "viewer"
    THEN [threw   |-> TRUE,
          message |-> "PERMISSION_DENIED: " \o role
                      \o " role does not have permission to "
                      \o (IF action = "" THEN permission ELSE action)]
    ELSE [threw |-> FALSE, message |-> ""]

\* assertPermission(role, permission, action?): whether it threw, and the message
\* of the Error; the empty string stands for an action that is omitted or empty
\* (both are falsy)
assertPermission(role, permission, action) ==
    IF ~hasPermission(role, permission)
    THEN [threw   |-> TRUE,
          message |-> "PERMISSION_DENIED: " \o role
                      \o " role does not have permission to "
                      \o (IF action = "" THEN permission ELSE action)]
    ELSE [threw |-> FALSE, message |-> ""]

\* return ROLE_PERMISSIONS[role]
\* mutant: every role is given the mapping of the owner
getRolePermissionsOwner(role) == ROLE_PERMISSIONS["owner"]

getRolePermissions(role) == ROLE_PERMISSIONS[role]

\* the action descriptions passed to assertPermission: none, and one
Actions == {"", "delete this component"}

\* no call of the permission functions has been made
NoPermCall ==
    [op |-> "none", role |-> "", permission |-> "", action |-> "", ret |-> [void |-> TRUE]]

\* the threads that call check, and a thread outside check
Threads == 1..MaxThreads
Idle == [pc |-> "idle", pair |-> <<>>, t |-> 0, validRecords |-> <<>>,
         overlapped |-> FALSE]

\* a thread is between the read of the list and its return
Inside(call) == call.pc \in {"read", "tested"}

\* mutant: the write-back stores the new record alone
WriteBackOnlyNew(store, storeKey, validRecords, t) ==
    MapSet(store, storeKey, Pushed(<<>>, t))

\* validRecords.push({timestamp: now, count: 1}); rateLimitStore.set(storeKey, validRecords)
WriteBack(store, storeKey, validRecords, t) ==
    MapSet(store, storeKey, Pushed(validRecords, t))

-----------------------------------------------------------------------------
(* History variables *)

\* no run is followed
NoRun == [start |-> 0, calls |-> 0]

\* how a call on the watched pair follows the call before it on that pair:
\* a check made more than windowMs after a rejected check, a check made at the
\* clock reading of a reset, a getStatus made after a getStatus (at the same
\* clock reading or at a later one)
After(op, prev, limiter, t) ==
    IF op = "check" /\ prev.op = "check" /\ ~prev.ret.allowed
       /\ t > prev.at + limiter.windowMs
    THEN "exhaustion"
    ELSE IF op = "check" /\ prev.op = "reset" /\ prev.at = t
    THEN "reset at once"
    ELSE IF op = "getStatus" /\ prev.op = "getStatus"
    THEN (IF prev.at = t THEN "getStatus at once" ELSE "getStatus")
    ELSE "other"

\* a run on a key is followed while its first record is inside the window
RunLive(r, limiter, t) == r.calls > 0 /\ r.start > t - limiter.windowMs

\* the run after a check call at t on a key whose stored list was records
RunAfterCheck(r, records, limiter, t) ==
    IF RunLive(r, limiter, t) THEN [r EXCEPT !.calls = @ + 1]
    ELSE IF records = <<>> THEN [start |-> t, calls |-> 1]
    ELSE NoRun

-----------------------------------------------------------------------------
(* Initial state *)

\* the limiters constructed: distinct identifiers and windows of at most one hour,
\* as the preconfigured limiters and the limiters of the test suite.  A limiter
\* of two requests per window with a short window (the tests' "quick"), and one
\* whose window is the hour the sweep keeps (the tests' "slow", with one request
\* per window in place of 100)
QuickConfig == [maxRequests |-> 2, windowMs |-> 2 * TickMs, identifier |-> "quick"]
SlowConfig == [maxRequests |-> 1, windowMs |-> OneHour, identifier |-> "slow"]

BaseConfigs == {QuickConfig, SlowConfig}

\* the keys each limiter is called with: one user on both limiters, and the
\* empty key as a second key of one of them
BaseCallers ==
    { <<RateLimiter(QuickConfig), "user1">>, <<RateLimiter(SlowConfig), "user1">>,
      <<RateLimiter(SlowConfig), "">> }

InitWith(configs, pairs) ==
    /\ rateLimitStore = << >>
    /\ now = 0
    /\ limiters = {RateLimiter(config) : config \in configs}
    /\ callers = pairs
    /\ watched \in pairs
    /\ lastOp = [op |-> "none", at |-> 0, nth |-> 0, after |-> "other",
                 ret |-> [void |-> TRUE]]
    /\ accepted = <<>>
    /\ run = NoRun
    /\ permCall = NoPermCall
    /\ inFlight = [thread \in Threads |-> Idle]

Init == InitWith(BaseConfigs, BaseCallers)

-----------------------------------------------------------------------------
(* Actions *)

\* one check call: check(key), or increment(key) with the result discarded
Checked(limiter, key, op) ==
    LET call == CheckCall(rateLimitStore, now, limiter, key)
        next == RunAfterCheck(run, MapGet(rateLimitStore, StoreKey(limiter, key)),
                              limiter, now)
    IN  /\ <<limiter, key>> \in callers
        /\ rateLimitStore' = IF op = "increment"
                             THEN IncrementCall(rateLimitStore, now, limiter, key)
                             ELSE call.store
        /\ IF <<limiter, key>> = watched
           THEN /\ run.calls < MaxRun
                /\ lastOp' = [op |-> op, at |-> now, nth |-> next.calls,
                              after |-> After(op, lastOp, limiter, now),
                              ret |-> IF op = "check" THEN call.ret ELSE [void |-> TRUE]]
                /\ accepted' = IF call.ret.allowed THEN Append(accepted, now) ELSE accepted
                /\ run' = next
           ELSE UNCHANGED <<lastOp, accepted, run>>
        /\ UNCHANGED <<permCall, inFlight, now, limiters, callers, watched>>

\* const result = rateLimiter.check(key)
Check(limiter, key) == Checked(limiter, key, "check")

\* rateLimiter.increment(key): this.check(key), result discarded
Increment(limiter, key) == Checked(limiter, key, "increment")

\* rateLimiter.reset(key)
Reset(limiter, key) ==
    /\ <<limiter, key>> \in callers
    /\ rateLimitStore' = ResetCall(rateLimitStore, limiter, key)
    /\ IF <<limiter, key>> = watched
       THEN /\ lastOp' = [op |-> "reset", at |-> now, nth |-> 0, after |-> "other",
                       ret |-> [void |-> TRUE]]
            /\ accepted' = <<>>
            /\ run' = NoRun
       ELSE UNCHANGED <<lastOp, accepted, run>>
    /\ UNCHANGED <<permCall, inFlight, now, limiters, callers, watched>>

\* rateLimiter.getStatus(key)
GetStatus(limiter, key) ==
    LET call == GetStatusCall(rateLimitStore, now, limiter, key)
    IN  /\ <<limiter, key>> \in callers
        /\ rateLimitStore' = call.store
        /\ IF <<limiter, key>> = watched
           THEN lastOp' = [op |-> "getStatus", at |-> now, nth |-> 0,
                           after |-> After("getStatus", lastOp, limiter, now),
                           ret |-> call.ret]
           ELSE UNCHANGED lastOp
        /\ UNCHANGED <<permCall, inFlight, now, limiters, callers, watched, accepted, run>>

\* setInterval(cleanupStore, 5 * 60 * 1000): one run of the callback
CleanupStore ==
    /\ rateLimitStore' = SweepCall(rateLimitStore, now)
    /\ UNCHANGED <<permCall, inFlight, now, limiters, callers, watched, lastOp, accepted, run>>

\* time passes: Date.now() reads a later instant
Tick(t) ==
    /\ t > now
    /\ now' = t
    /\ run' = IF RunLive(run, watched[1], t) THEN run ELSE NoRun
    /\ UNCHANGED <<permCall, inFlight, rateLimitStore, limiters, callers, watched, lastOp, accepted>>

Next ==
    \/ \E p \in callers : Check(p[1], p[2])
    \/ \E p \in callers : Increment(p[1], p[2])
    \/ \E p \in callers : Reset(p[1], p[2])
    \/ \E p \in callers : GetStatus(p[1], p[2])
    \/ CleanupStore
    \/ \E t \in Instants : Tick(t)

Spec == Init /\ [][Next]_vars

\* one request handled by withRateLimit(limiter, getIdentifier), getIdentifier
\* having resolved to key; the history keeps what one check returns in this state
WithRateLimit(limiter, key) ==
    LET handled == WithRateLimitCall(rateLimitStore, now, limiter, key)
        call    == CheckCall(rateLimitStore, now, limiter, key)
        next    == RunAfterCheck(run, MapGet(rateLimitStore, StoreKey(limiter, key)),
                                 limiter, now)
    IN  /\ <<limiter, key>> \in callers
        /\ rateLimitStore' = handled.store
        /\ IF <<limiter, key>> = watched
           THEN /\ run.calls < MaxRun
                /\ lastOp' = [op |-> "withRateLimit", at |-> now, nth |-> next.calls,
                              after |-> "other",
                              ret |-> [result |-> call.ret, response |-> handled.response]]
                /\ accepted' = IF call.ret.allowed THEN Append(accepted, now) ELSE accepted
                /\ run' = next
           ELSE UNCHANGED <<lastOp, accepted, run>>
        /\ UNCHANGED <<permCall, inFlight, now, limiters, callers, watched>>

\* the requests of the callers all pass through the handler
HandlerNext ==
    \/ \E p \in callers : WithRateLimit(p[1], p[2])
    \/ CleanupStore
    \/ \E t \in Instants : Tick(t)

HandlerSpec == Init /\ [][HandlerNext]_vars

\* the permission functions are called while the rate limiter is idle
PermInit ==
    /\ rateLimitStore = << >>
    /\ now = 0
    /\ limiters = {}
    /\ callers = {}
    /\ watched = << >>
    /\ lastOp = [op |-> "none", at |-> 0, nth |-> 0, after |-> "other",
                 ret |-> [void |-> TRUE]]
    /\ accepted = <<>>
    /\ run = NoRun
    /\ permCall = NoPermCall
    /\ inFlight = [thread \in Threads |-> Idle]

limiterVars ==
    <<rateLimitStore, now, limiters, callers, watched, lastOp, accepted, run, inFlight>>

\* hasPermission(role, permission)
HasPermission(role, permission) ==
    /\ permCall' = [op |-> "hasPermission", role |-> role, permission |-> permission,
                    action |-> "", ret |-> [value |-> hasPermission(role, permission)]]
    /\ UNCHANGED limiterVars

\* assertPermission(role, permission, action)
AssertPermission(role, permission, action) ==
    /\ permCall' = [op |-> "assertPermission", role |-> role, permission |-> permission,
                    action |-> action, ret |-> assertPermission(role, permission, action)]
    /\ UNCHANGED limiterVars

\* getRolePermissions(role)
GetRolePermissions(role) ==
    /\ permCall' = [op |-> "getRolePermissions", role |-> role, permission |-> "",
                    action |-> "", ret |-> [value |-> getRolePermissions(role)]]
    /\ UNCHANGED limiterVars

PermNext ==
    \/ \E role \in WorkspaceRole : \E permission \in Permission :
          HasPermission(role, permission)
    \/ \E role \in WorkspaceRole : \E permission \in Permission : \E action \in Actions :
          AssertPermission(role, permission, action)
    \/ \E role \in WorkspaceRole : GetRolePermissions(role)

PermSpec == PermInit /\ [][PermNext]_vars

\* a limiter whose window is longer than the hour the sweep keeps: the
\* constructor accepts any windowMs.  It is called next to the limiter whose
\* window is the hour
LongConfig == [maxRequests |-> 2, windowMs |-> OneHour + TickMs, identifier |-> "long"]

LongConfigs == {LongConfig, SlowConfig}

LongCallers ==
    { <<RateLimiter(LongConfig), "user1">>, <<RateLimiter(SlowConfig), "user1">> }

LongInit == InitWith(LongConfigs, LongCallers)

LongSpec == LongInit /\ [][Next]_vars

-----------------------------------------------------------------------------
(* Limiters whose identifiers and keys meet in the store *)

\* a limiter constructed without identifier and one named "default"; a limiter
\* named "api" and one named "api:v1" (the constructor takes any string)
OmittedConfig == [maxRequests |-> 2, windowMs |-> 2 * TickMs, identifier |-> ""]
DefaultConfig == [maxRequests |-> 1, windowMs |-> 2 * TickMs, identifier |-> "default"]
ApiConfig == [maxRequests |-> 2, windowMs |-> 2 * TickMs, identifier |-> "api"]
ApiV1Config == [maxRequests |-> 1, windowMs |-> 2 * TickMs, identifier |-> "api:v1"]

CollideConfigs == {OmittedConfig, DefaultConfig, ApiConfig, ApiV1Config}

\* the configuration and the key of each caller: a user id on three of the
\* limiters, and a key with a colon in it (as an IPv6 address has) on "api"
CollidePairs ==
    { <<OmittedConfig, "user1">>, <<DefaultConfig, "user1">>,
      <<ApiConfig, "v1:user1">>, <<ApiV1Config, "user1">> }

CollideInit ==
    InitWith(CollideConfigs, {<<RateLimiter(a[1]), a[2]>> : a \in CollidePairs})

\* the calls of the callers; the accepted checks followed are at most MaxRun
CollideNext ==
    \/ \E p \in callers : Len(accepted) < MaxRun /\ Check(p[1], p[2])
    \/ \E p \in callers : Reset(p[1], p[2])
    \/ \E t \in Instants : Tick(t)

CollideSpec == CollideInit /\ [][CollideNext]_vars

-----------------------------------------------------------------------------
(* check as three steps that interleave between threads *)

\* lines 80-88: the clock is read, the list of the key is read and filtered
ReadRecords(thread, limiter, key) ==
    LET storeKey == StoreKey(limiter, key)
        others   == {x \in Threads \ {thread} :
                        /\ Inside(inFlight[x])
                        /\ StoreKey(inFlight[x].pair[1], inFlight[x].pair[2]) = storeKey}
        busy     == {x \in Threads : Inside(inFlight[x]) /\ inFlight[x].pair = watched}
    IN  /\ <<limiter, key>> \in callers
        /\ inFlight[thread].pc = "idle"
        /\ <<limiter, key>> = watched => Len(accepted) + Cardinality(busy) < MaxRun
        /\ inFlight' =
              [x \in Threads |->
                  IF x = thread
                  THEN [pc |-> "read", pair |-> <<limiter, key>>, t |-> now,
                        validRecords |->
                            ValidRecords(MapGet(rateLimitStore, storeKey), now, limiter),
                        overlapped |-> inFlight[x].overlapped \/ others # {}]
                  ELSE IF x \in others
                  THEN [inFlight[x] EXCEPT !.overlapped = TRUE]
                  ELSE inFlight[x]]
        /\ UNCHANGED <<permCall, rateLimitStore, now, limiters, callers, watched,
                       lastOp, accepted, run>>

\* lines 91-105: the limit test; a call over the limit returns its rejection
TestLimit(thread) ==
    LET call          == inFlight[thread]
        limiter       == call.pair[1]
        totalRequests == SumCount(call.validRecords)
        resetTime     == ResetTime(call.validRecords, call.t, limiter)
    IN  /\ call.pc = "read"
        /\ IF LimitExceeded(totalRequests, limiter)
           THEN /\ inFlight' = [inFlight EXCEPT
                                   ![thread] = [Idle EXCEPT !.overlapped = call.overlapped]]
                /\ IF call.pair = watched
                   THEN lastOp' = [op |-> "check", at |-> now, nth |-> 0,
                                   after |-> "other",
                                   ret |-> [allowed |-> FALSE, remaining |-> 0,
                                            reset |-> resetTime,
                                            retryAfter |-> <<RetryAfter(resetTime, call.t)>>]]
                   ELSE UNCHANGED lastOp
           ELSE /\ inFlight' = [inFlight EXCEPT ![thread].pc = "tested"]
                /\ UNCHANGED lastOp
        /\ UNCHANGED <<permCall, rateLimitStore, now, limiters, callers, watched,
                       accepted, run>>

\* lines 109-123: the record is pushed on the list read, the list is written
\* back, and the call returns its acceptance
WriteRecords(thread) ==
    LET call          == inFlight[thread]
        limiter       == call.pair[1]
        totalRequests == SumCount(call.validRecords)
    IN  /\ call.pc = "tested"
        /\ rateLimitStore' = WriteBack(rateLimitStore, StoreKey(limiter, call.pair[2]),
                                       call.validRecords, call.t)
        /\ inFlight' = [inFlight EXCEPT
                           ![thread] = [Idle EXCEPT !.overlapped = call.overlapped]]
        /\ IF call.pair = watched
           THEN /\ lastOp' = [op |-> "check", at |-> now, nth |-> 0, after |-> "other",
                              ret |-> [allowed |-> TRUE,
                                       remaining |-> RemainingAfter(totalRequests, limiter),
                                       reset |-> call.t + limiter.windowMs,
                                       retryAfter |-> <<>>]]
                /\ accepted' = Append(accepted, call.t)
           ELSE UNCHANGED <<lastOp, accepted>>
        /\ UNCHANGED <<permCall, now, limiters, callers, watched, run>>

\* the clock advances, also while threads are inside check
RaceTick(t) ==
    /\ t > now
    /\ now' = t
    /\ UNCHANGED <<permCall, inFlight, rateLimitStore, limiters, callers, watched,
                   lastOp, accepted, run>>

RaceCallers == {<<RateLimiter(QuickConfig), "user1">>}

RaceInit == InitWith(BaseConfigs, RaceCallers)

RaceNext ==
    \/ \E thread \in Threads : \E p \in callers : ReadRecords(thread, p[1], p[2])
    \/ \E thread \in Threads : TestLimit(thread)
    \/ \E thread \in Threads : WriteRecords(thread)
    \/ \E t \in Instants : RaceTick(t)

RaceSpec == RaceInit /\ [][RaceNext]_vars

-----------------------------------------------------------------------------
(* The pusher endpoints serving requests *)

\* rateLimiters.pusher, with 2 requests per window of two ticks in place of 60
\* requests per 60 * 1000 ms
PusherConfig == [maxRequests |-> 2, windowMs |-> 2 * TickMs, identifier |-> "pusher"]

RouteCallers == {<<RateLimiter(PusherConfig), "user1">>}

RouteInit == InitWith({PusherConfig}, RouteCallers)

\* one request served by the POST handler of a route; the history keeps the
\* latest request and its outcome
Post(route, request) ==
    LET handled == POST(route, rateLimitStore, now, watched[1], request)
    IN  /\ rateLimitStore' = handled.store
        /\ lastOp' = [op |-> "POST", at |-> now, nth |-> 0, after |-> "other",
                      ret |-> [route |-> route, request |-> request,
                               events |-> handled.events, check |-> handled.check,
                               response |-> handled.response]]
        /\ accepted' = IF /\ request.user = watched[2]
                          /\ handled.check # <<>> /\ handled.check[1].allowed
                       THEN Append(accepted, now) ELSE accepted
        /\ UNCHANGED <<permCall, inFlight, now, limiters, callers, watched, run>>

RouteNext ==
    \/ \E route \in Routes : \E request \in Requests : Post(route, request)
    \/ CleanupStore
    \/ \E t \in Instants : Tick(t)

RouteSpec == RouteInit /\ [][RouteNext]_vars

-----------------------------------------------------------------------------
(* Observations used by the properties *)

Limiter == watched[1]
Key == watched[2]

\* the accepted checks of the watched pair whose timestamps lie in (t - windowMs, t]
AcceptedIn(t) ==
    {i \in DOMAIN accepted : accepted[i] > t - Limiter.windowMs /\ accepted[i] <= t}

\* the accepted requests of the watched pair that are inside the window at t
InWindowAt(t) == {i \in DOMAIN accepted : accepted[i] > t - Limiter.windowMs}

\* what check and getStatus would return in the current state
CheckNow(limiter, key) == CheckCall(rateLimitStore, now, limiter, key).ret
StatusNow(limiter, key) == GetStatusCall(rateLimitStore, now, limiter, key).ret

\* the store a call on the pair p, made in the current state, leaves (increment
\* leaves the store check leaves)
AfterCheck(p) == CheckCall(rateLimitStore, now, p[1], p[2]).store
AfterIncrement(p) == IncrementCall(rateLimitStore, now, p[1], p[2])
AfterReset(p) == ResetCall(rateLimitStore, p[1], p[2])
AfterStatus(p) == GetStatusCall(rateLimitStore, now, p[1], p[2]).store

\* what check and getStatus return for the pair q when the store is store
ResultsIn(store, q) ==
    <<CheckCall(store, now, q[1], q[2]).ret, GetStatusCall(store, now, q[1], q[2]).ret>>

\* what check and getStatus return for the pair q at the clock reading t when the
\* store is store
ResultsAt(store, t, q) ==
    <<CheckCall(store, t, q[1], q[2]).ret, GetStatusCall(store, t, q[1], q[2]).ret>>

\* the store a run of the sweep, made in the current state, leaves
AfterSweep == SweepCall(rateLimitStore, now)

\* what the handler returns for a request of the pair p in the current state
HandledNow(p) == WithRateLimitCall(rateLimitStore, now, p[1], p[2])

\* the positions of a call among the calls a handler made
At(events, name) == {i \in DOMAIN events : events[i] = name}

\* the handler called the transport only after auth() and an allowed check of
\* the pusher limiter, in that order
Guarded(handled, transport) ==
    At(handled.events, transport) # {} =>
        /\ handled.check # <<>> /\ handled.check[1].allowed
        /\ \A k \in At(handled.events, transport) :
              \E i, j \in DOMAIN handled.events :
                  /\ i < j /\ j < k
                  /\ handled.events[i] = "auth"
                  /\ handled.events[j] = "rateLimiters.pusher.check"

\* the response is the 429 response of the check result, for the limiter
Is429(response, result, limiter) ==
    /\ response.status = TooManyRequests
    /\ DOMAIN response.headers = {"Content-Type", "Retry-After", "X-RateLimit-Limit",
                                  "X-RateLimit-Remaining", "X-RateLimit-Reset"}
    /\ response.headers["Retry-After"] = String(result.retryAfter[1])
    /\ response.headers["X-RateLimit-Reset"] = String(result.reset)
    /\ response.headers["X-RateLimit-Limit"] = String(limiter.maxRequests)
    /\ response.headers["X-RateLimit-Remaining"] = "0"

\* the watched pair has full capacity: getStatus and check report no request
FullCapacity ==
    /\ StatusNow(Limiter, Key).currentRequests = 0
    /\ StatusNow(Limiter, Key).remaining = Limiter.maxRequests
    /\ CheckNow(Limiter, Key).allowed
    /\ CheckNow(Limiter, Key).remaining = Limiter.maxRequests - 1

-----------------------------------------------------------------------------
-----------------------------------------------------------------------------
-----------------------------------------------------------------------------
-----------------------------------------------------------------------------
(* C4: when a check on a key was rejected and more than windowMs passes with  *)
(* no further call on that key, the next check on it is allowed and returns   *)
(* remaining = maxRequests - 1.                                               *)
AllowedAfterWindow ==
    (lastOp.op = "check" /\ lastOp.after = "exhaustion")
        => (lastOp.ret.allowed /\ lastOp.ret.remaining = Limiter.maxRequests - 1)

\* such a check has been made
AllowedAfterWindowWitness ==
    /\ lastOp.op = "check" /\ lastOp.after = "exhaustion"
    /\ lastOp.ret.allowed
    /\ Len(accepted) = Limiter.maxRequests + 1

-----------------------------------------------------------------------------
(* C5: two distinct keys of one limiter never share counts.  In every         *)
(* reachable state a check, increment or reset call on one key leaves what    *)
(* check and getStatus return for every other key of that limiter unchanged,  *)
(* and a key without accepted requests has full capacity while another key of *)
(* the limiter is exhausted.                                                  *)
KeysIsolated ==
    \A p \in callers :
        /\ \A q \in callers :
              (p[1] = q[1] /\ p[2] # q[2])
                  => LET before == ResultsIn(rateLimitStore, q)
                     IN  /\ ResultsIn(AfterCheck(p), q) = before
                         /\ ResultsIn(AfterReset(p), q) = before
        /\ (p[1] = Limiter /\ p[2] # Key /\ accepted = <<>>
            /\ ~CheckNow(p[1], p[2]).allowed) => FullCapacity

\* getStatus was just called on a key without accepted requests while another
\* key of the same limiter is exhausted
KeysIsolatedWitness ==
    /\ lastOp.op = "getStatus" /\ lastOp.at = now
    /\ accepted = <<>>
    /\ lastOp.ret.remaining = Limiter.maxRequests
    /\ \E p \in callers :
          p[1] = Limiter /\ p[2] # Key /\ ~CheckNow(p[1], p[2]).allowed

-----------------------------------------------------------------------------
(* C6: two limiters with different identifiers never share counts for the     *)
(* same key string.  In every reachable state a call on one limiter leaves    *)
(* what check and getStatus return for that key on the other limiter          *)
(* unchanged, and the key has full capacity on a limiter that accepted        *)
(* nothing for it while it is exhausted on the other.                         *)
IdentifiersIsolated ==
    \A p \in callers :
        /\ \A q \in callers :
              (p[1].identifier # q[1].identifier /\ p[2] = q[2])
                  => LET before == ResultsIn(rateLimitStore, q)
                     IN  /\ ResultsIn(AfterCheck(p), q) = before
                         /\ ResultsIn(AfterReset(p), q) = before
                         /\ ResultsIn(AfterStatus(p), q) = before
        /\ (p[1].identifier # Limiter.identifier /\ p[2] = Key /\ accepted = <<>>
            /\ ~CheckNow(p[1], p[2]).allowed) => FullCapacity

\* getStatus was just called for a key on a limiter that accepted nothing for
\* it, while the same key is exhausted on a limiter with another identifier
IdentifiersIsolatedWitness ==
    /\ lastOp.op = "getStatus" /\ lastOp.at = now
    /\ accepted = <<>>
    /\ lastOp.ret.remaining = Limiter.maxRequests
    /\ \E p \in callers :
          /\ p[1].identifier # Limiter.identifier /\ p[2] = Key
          /\ ~CheckNow(p[1], p[2]).allowed

-----------------------------------------------------------------------------
(* C7: a rejected check leaves the whole store as it was: in every reachable  *)
(* state in which check on a key is rejected, the store after the call is the *)
(* store before it (no record added, none changed or removed).                *)
RejectedLeavesStore ==
    \A p \in callers :
        ~CheckNow(p[1], p[2]).allowed => AfterCheck(p) = rateLimitStore

\* a check was just rejected while the store holds records of several keys
RejectedLeavesStoreWitness ==
    /\ lastOp.op = "check" /\ lastOp.at = now /\ ~lastOp.ret.allowed
    /\ ~CheckNow(Limiter, Key).allowed
    /\ Cardinality(DOMAIN rateLimitStore) > 1

-----------------------------------------------------------------------------
(* C8: getStatus is read-only.  In every reachable state the store after      *)
(* getStatus on a key is the store before it, so a check on the key returns   *)
(* after the call what it would have returned before.                         *)
GetStatusReadOnly ==
    \A p \in callers :
        LET after == AfterStatus(p)
        IN  /\ after = rateLimitStore
            /\ ResultsIn(after, p) = ResultsIn(rateLimitStore, p)

\* getStatus was just called on a key that holds a record outside the window,
\* which the call filtered out and left in the store
GetStatusReadOnlyWitness ==
    /\ lastOp.op = "getStatus" /\ lastOp.at = now
    /\ Len(MapGet(rateLimitStore, StoreKey(Limiter, Key))) > lastOp.ret.currentRequests

-----------------------------------------------------------------------------
-----------------------------------------------------------------------------
-----------------------------------------------------------------------------
(* C11: reset(key) followed at once by check(key) behaves as check on a key   *)
(* that was never used, whatever the history of the key: in every reachable   *)
(* state the check after a reset returns what a check against an empty store  *)
(* returns, allowed with remaining = maxRequests - 1, and leaves exactly one  *)
(* record stored for the key.                                                 *)
ResetThenCheck ==
    /\ \A p \in callers :
          LET call  == CheckCall(AfterReset(p), now, p[1], p[2])
              fresh == CheckCall(<< >>, now, p[1], p[2])
          IN  /\ call.ret = fresh.ret
              /\ call.ret.allowed
              /\ call.ret.remaining = p[1].maxRequests - 1
              /\ Len(MapGet(call.store, StoreKey(p[1], p[2]))) = 1
    /\ (lastOp.op = "check" /\ lastOp.after = "reset at once")
          => /\ lastOp.ret.allowed
             /\ lastOp.ret.remaining = Limiter.maxRequests - 1
             /\ lastOp.at = now
                   => Len(MapGet(rateLimitStore, StoreKey(Limiter, Key))) = 1

\* a check was just made at the clock reading of a reset of its key, after
\* time had passed, with records of other keys in the store
ResetThenCheckWitness ==
    /\ lastOp.op = "check" /\ lastOp.after = "reset at once" /\ lastOp.at = now
    /\ now > 0
    /\ Cardinality(DOMAIN rateLimitStore) > 1

-----------------------------------------------------------------------------
(* C12: reset(key) removes exactly the store entry of the limiter's key and   *)
(* leaves the records of every other key as they were; when the key has no    *)
(* entry the store is unchanged, so a second reset changes nothing.           *)
ResetRemovesEntry ==
    \A p \in callers :
        LET storeKey == StoreKey(p[1], p[2])
            after    == AfterReset(p)
        IN  /\ DOMAIN after = DOMAIN rateLimitStore \ {storeKey}
            /\ \A k \in DOMAIN after : after[k] = rateLimitStore[k]
            /\ storeKey \notin DOMAIN rateLimitStore => after = rateLimitStore
            /\ ResetCall(after, p[1], p[2]) = after

\* a key was just reset while two other keys hold records
ResetRemovesEntryWitness ==
    /\ lastOp.op = "reset" /\ lastOp.at = now
    /\ StoreKey(Limiter, Key) \notin DOMAIN rateLimitStore
    /\ Cardinality(DOMAIN rateLimitStore) = 2

-----------------------------------------------------------------------------
(* C13 as stated: the sweep never evicts a record that check or getStatus     *)
(* would still count, for any windowMs: in every reachable state a run of the *)
(* sweep leaves what check and getStatus return for every key, at that clock  *)
(* reading and at every later one, unchanged.                                 *)
SweepKeepsResults ==
    \A p \in callers :
        \A t \in Instants :
            t >= now => ResultsAt(AfterSweep, t, p) = ResultsAt(rateLimitStore, t, p)

-----------------------------------------------------------------------------
(* C14: on every rejected check retryAfter is present and is                  *)
(* ceil((reset - now) / 1000) for the reset returned, and it satisfies        *)
(* 0 < retryAfter <= ceil(windowMs / 1000).                                   *)
RetryAfterBounds ==
    /\ \A p \in callers :
          LET ret == CheckNow(p[1], p[2])
          IN  ~ret.allowed =>
                  /\ Len(ret.retryAfter) = 1
                  /\ ret.retryAfter[1] = Ceil(ret.reset - now, MsPerSecond)
                  /\ ret.retryAfter[1] > 0
                  /\ ret.retryAfter[1] <= Ceil(p[1].windowMs, MsPerSecond)
    /\ (lastOp.op = "check" /\ ~lastOp.ret.allowed) =>
          /\ lastOp.ret.retryAfter[1] = Ceil(lastOp.ret.reset - lastOp.at, MsPerSecond)
          /\ lastOp.ret.retryAfter[1] > 0
          /\ lastOp.ret.retryAfter[1] <= Ceil(Limiter.windowMs, MsPerSecond)

\* a check was just rejected less than a second before its reset instant, and
\* returned one second
RetryAfterBoundsWitness ==
    /\ lastOp.op = "check" /\ lastOp.at = now /\ ~lastOp.ret.allowed
    /\ lastOp.ret.reset - now < MsPerSecond
    /\ lastOp.ret.retryAfter = <<1>>

-----------------------------------------------------------------------------
(* C15: a rejection is retryable after retryAfter seconds.  When check(key)   *)
(* was rejected at t with retryAfter = r and no check or increment on the key *)
(* was made since, a check(key) at any clock reading >= t + 1000 * r is       *)
(* allowed, whatever calls on other keys and sweeps were interleaved.         *)
RetryAllowed ==
    /\ \A p \in callers : \A t \in Instants :
          LET ret == CheckNow(p[1], p[2])
          IN  (~ret.allowed /\ t >= now + MsPerSecond * ret.retryAfter[1])
                  => CheckCall(rateLimitStore, t, p[1], p[2]).ret.allowed
    /\ (/\ lastOp.op = "check" /\ ~lastOp.ret.allowed
        /\ now >= lastOp.at + MsPerSecond * lastOp.ret.retryAfter[1])
          => CheckNow(Limiter, Key).allowed

\* the clock reads exactly t + 1000 * r after a rejected check, and a request
\* of the key is still inside the window: only the oldest has left it
RetryAllowedWitness ==
    /\ lastOp.op = "check" /\ ~lastOp.ret.allowed
    /\ now = lastOp.at + MsPerSecond * lastOp.ret.retryAfter[1]
    /\ StatusNow(Limiter, Key).currentRequests > 0
    /\ CheckNow(Limiter, Key).allowed

-----------------------------------------------------------------------------
(* C16: the limiter raises no error.  In every reachable state check and      *)
(* getStatus return a result of their declared shape for every key, increment *)
(* and reset leave a well-formed store, exhaustion is reported as allowed =   *)
(* false and nothing else, and the empty string is a key like any other: its  *)
(* store key is its own, and calls on it and calls on the other keys leave    *)
(* each other's results unchanged.                                            *)
RecordLists == Seq([timestamp : Nat, count : Nat])

WellFormed(store) ==
    \A k \in DOMAIN store : store[k] \in RecordLists

NeverRaises ==
    /\ WellFormed(rateLimitStore)
    /\ \A p \in callers :
          LET check  == CheckNow(p[1], p[2])
              status == StatusNow(p[1], p[2])
          IN  /\ DOMAIN check = {"allowed", "remaining", "reset", "retryAfter"}
              /\ check.allowed \in BOOLEAN
              /\ check.remaining \in 0..p[1].maxRequests
              /\ check.reset \in Nat
              /\ check.allowed <=> status.currentRequests < p[1].maxRequests
              /\ check.allowed <=> check.retryAfter = <<>>
              /\ DOMAIN status = {"currentRequests", "remaining", "reset"}
              /\ status.currentRequests \in Nat
              /\ status.remaining \in 0..p[1].maxRequests
              /\ status.reset \in Nat
              /\ WellFormed(AfterCheck(p))
              /\ WellFormed(AfterIncrement(p))
              /\ WellFormed(AfterReset(p))
              /\ WellFormed(AfterStatus(p))
    /\ \A p \in callers : \A q \in callers :
          (p[2] = "" /\ q # p) =>
              LET pBefore == ResultsIn(rateLimitStore, p)
                  qBefore == ResultsIn(rateLimitStore, q)
              IN  /\ StoreKey(p[1], p[2]) # StoreKey(q[1], q[2])
                  /\ ResultsIn(AfterCheck(p), q) = qBefore
                  /\ ResultsIn(AfterReset(p), q) = qBefore
                  /\ ResultsIn(AfterCheck(q), p) = pBefore
                  /\ ResultsIn(AfterReset(q), p) = pBefore

\* check on the empty key was just rejected, reported as allowed = false, while
\* another key of the same limiter has all its capacity
NeverRaisesWitness ==
    /\ Key = ""
    /\ lastOp.op = "check" /\ lastOp.at = now /\ ~lastOp.ret.allowed
    /\ \E q \in callers :
          /\ q[1] = Limiter /\ q[2] # ""
          /\ StatusNow(q[1], q[2]).remaining = q[1].maxRequests

-----------------------------------------------------------------------------
(* C17: increment(key) is check(key) with the result discarded: in every      *)
(* reachable state the store after increment is the store after check; it     *)
(* holds one request more for the key when the key is below its limit and is  *)
(* the store before the call when the key is at its limit.                    *)
IncrementIsCheck ==
    \A p \in callers :
        LET after  == AfterIncrement(p)
            before == StatusNow(p[1], p[2]).currentRequests
        IN  /\ after = AfterCheck(p)
            /\ before < p[1].maxRequests =>
                  /\ Len(MapGet(after, StoreKey(p[1], p[2]))) = before + 1
                  /\ GetStatusCall(after, now, p[1], p[2]).ret.currentRequests = before + 1
            /\ before >= p[1].maxRequests => after = rateLimitStore

\* increment was just called on a key at its limit, after the calls of its run
\* had filled the limit
IncrementIsCheckWitness ==
    /\ lastOp.op = "increment" /\ lastOp.at = now
    /\ lastOp.nth > Limiter.maxRequests
    /\ StatusNow(Limiter, Key).currentRequests = Limiter.maxRequests
    /\ Len(accepted) = Limiter.maxRequests

-----------------------------------------------------------------------------
(* C18: the withRateLimit handler makes exactly one check per request (the    *)
(* store it leaves is the store one check leaves), returns a 429 response     *)
(* exactly when that check returned allowed = false and null otherwise, and   *)
(* in the 429 response Retry-After and X-RateLimit-Reset are the decimal      *)
(* strings of retryAfter and reset of that check, X-RateLimit-Limit that of   *)
(* the limiter's maxRequests, and X-RateLimit-Remaining is "0".               *)
HandlerRejects ==
    /\ \A p \in callers :
          LET handled == HandledNow(p)
              result  == CheckNow(p[1], p[2])
          IN  /\ handled.store = AfterCheck(p)
              /\ handled.response = <<>> <=> result.allowed
              /\ ~result.allowed =>
                    /\ Len(handled.response) = 1
                    /\ Is429(handled.response[1], result, p[1])
    /\ lastOp.op = "withRateLimit" =>
          /\ lastOp.ret.response = <<>> <=> lastOp.ret.result.allowed
          /\ ~lastOp.ret.result.allowed =>
                Is429(lastOp.ret.response[1], lastOp.ret.result, Limiter)

\* the handler just rejected a request on the limiter of two requests per
\* 1500 ms, 750 ms before the reset instant 1500
HandlerRejectsWitness ==
    /\ lastOp.op = "withRateLimit" /\ lastOp.at = now
    /\ Len(lastOp.ret.response) = 1
    /\ lastOp.ret.response[1].status = 429
    /\ lastOp.ret.response[1].headers["Retry-After"] = "1"
    /\ lastOp.ret.response[1].headers["X-RateLimit-Limit"] = "2"
    /\ lastOp.ret.response[1].headers["X-RateLimit-Remaining"] = "0"
    /\ lastOp.ret.response[1].headers["X-RateLimit-Reset"] = "1500"

-----------------------------------------------------------------------------
(* The groups of permissions the claims name *)

WorkspacePerms ==
    {"can_update_workspace", "can_delete_workspace", "can_make_workspace_public"}
MemberPerms ==
    {"can_add_members", "can_remove_members", "can_change_member_roles",
     "can_send_invitations"}
ComponentPerms ==
    {"can_create_components", "can_update_components", "can_delete_components",
     "can_set_canonical_version"}
ViewPerms == {"can_view_components", "can_view_analytics", "can_view_activity"}

\* the permissions hasPermission grants to a role
Granted(role) == {permission \in Permission : hasPermission(role, permission)}

-----------------------------------------------------------------------------
(* C19: hasPermission equals the permission table for the 3 roles and the 14  *)
(* permissions: owner has every permission; editor has the 4 component and    *)
(* the 3 view permissions and none of the 3 workspace and 4 member            *)
(* permissions; viewer has exactly the 3 view permissions.  Every call made   *)
(* returned the entry of the table.                                           *)
PermissionTable ==
    /\ Permission = WorkspacePerms \cup MemberPerms \cup ComponentPerms \cup ViewPerms
    /\ Cardinality(Permission) = 14
    /\ Cardinality(WorkspacePerms) = 3 /\ Cardinality(MemberPerms) = 4
    /\ Cardinality(ComponentPerms) = 4 /\ Cardinality(ViewPerms) = 3
    /\ DOMAIN ROLE_PERMISSIONS = WorkspaceRole /\ Cardinality(WorkspaceRole) = 3
    /\ Granted("owner") = Permission
    /\ Granted("editor") = ComponentPerms \cup ViewPerms
    /\ Granted("viewer") = ViewPerms
    /\ permCall.op = "hasPermission" =>
          (permCall.ret.value <=>
              \/ permCall.role = "owner"
              \/ permCall.role = "editor" /\ permCall.permission \in ComponentPerms \cup ViewPerms
              \/ permCall.role = "viewer" /\ permCall.permission \in ViewPerms)

\* hasPermission was called for an editor and a member-management permission,
\* and returned false
PermissionTableWitness ==
    /\ permCall.op = "hasPermission"
    /\ permCall.role = "editor" /\ permCall.permission = "can_send_invitations"
    /\ permCall.ret.value = FALSE

-----------------------------------------------------------------------------
(* C20: role monotonicity.  For every permission, viewer having it implies    *)
(* editor has it, and editor having it implies owner has it; the permissions  *)
(* of owner strictly contain those of editor, which strictly contain those of *)
(* viewer.  A call that returned true returns true for every higher role.     *)
RoleMonotone ==
    /\ \A permission \in Permission :
          /\ hasPermission("viewer", permission) => hasPermission("editor", permission)
          /\ hasPermission("editor", permission) => hasPermission("owner", permission)
    /\ Granted("viewer") \subseteq Granted("editor") /\ Granted("viewer") # Granted("editor")
    /\ Granted("editor") \subseteq Granted("owner") /\ Granted("editor") # Granted("owner")
    /\ (permCall.op = "hasPermission" /\ permCall.ret.value) =>
          /\ permCall.role = "viewer" => hasPermission("editor", permCall.permission)
          /\ permCall.role \in {"viewer", "editor"} =>
                hasPermission("owner", permCall.permission)

\* hasPermission was called for a viewer and returned true
RoleMonotoneWitness ==
    /\ permCall.op = "hasPermission"
    /\ permCall.role = "viewer" /\ permCall.permission = "can_view_analytics"
    /\ permCall.ret.value = TRUE

-----------------------------------------------------------------------------
(* C21: the permission matrix is total.  The entries of owner, editor and     *)
(* viewer have the same 14 permission keys, so hasPermission returns a        *)
(* boolean for every one of the 3 x 14 pairs, and every call made did.        *)
MatrixTotal ==
    /\ \A role \in WorkspaceRole : DOMAIN ROLE_PERMISSIONS[role] = Permission
    /\ Cardinality(WorkspaceRole \X Permission) = 3 * 14
    /\ \A role \in WorkspaceRole : \A permission \in Permission :
          hasPermission(role, permission) \in BOOLEAN
    /\ permCall.op = "hasPermission" => permCall.ret.value \in BOOLEAN

\* hasPermission was called for a viewer and a workspace permission, and
\* returned false
MatrixTotalWitness ==
    /\ permCall.op = "hasPermission"
    /\ permCall.role = "viewer" /\ permCall.permission = "can_delete_workspace"
    /\ permCall.ret.value = FALSE

-----------------------------------------------------------------------------
(* C22: assertPermission(role, permission, action?) fails exactly when        *)
(* hasPermission(role, permission) is false, whatever the action, so it never *)
(* fails for owner; hasPermission and getRolePermissions fail for no role and *)
(* permission, so denial is the only error of the permission functions.       *)
AssertMatchesHas ==
    /\ \A role \in WorkspaceRole : \A permission \in Permission : \A action \in Actions :
          assertPermission(role, permission, action).threw
              <=> ~hasPermission(role, permission)
    /\ \A permission \in Permission : \A action \in Actions :
          ~assertPermission("owner", permission, action).threw
    /\ permCall.op = "assertPermission" =>
          /\ permCall.ret.threw <=> ~hasPermission(permCall.role, permCall.permission)
          /\ permCall.role = "owner" => ~permCall.ret.threw
    /\ permCall.op \in {"hasPermission", "getRolePermissions"} =>
          DOMAIN permCall.ret = {"value"}

\* assertPermission was called for an editor and a workspace permission, and
\* threw
AssertMatchesHasWitness ==
    /\ permCall.op = "assertPermission"
    /\ permCall.role = "editor" /\ permCall.permission = "can_update_workspace"
    /\ permCall.ret.threw

-----------------------------------------------------------------------------
(* What a message contains *)

\* the texts a message of assertPermission can end with
Descriptions == (Permission \cup Actions) \ {""}

\* the texts that can stand before and after a part of a message
Prefixes ==
    {"", "PERMISSION_DENIED: "}
    \cup {"PERMISSION_DENIED: " \o role \o " role does not have permission to " :
            role \in WorkspaceRole}
Suffixes ==
    {""}
    \cup {" role does not have permission to " \o d : d \in Descriptions}
    \cup {": " \o role \o " role does not have permission to " \o d :
            role \in WorkspaceRole, d \in Descriptions}

\* message.includes(part): the message is some text, the part, some text
Includes(message, part) ==
    \E a \in Prefixes : \E b \in Suffixes : message = a \o part \o b

-----------------------------------------------------------------------------
(* C23: whenever assertPermission fails, the message of its error contains    *)
(* the marker PERMISSION_DENIED, the name of the role, and the action         *)
(* description when one was given, or else the permission identifier.         *)
DeniedMessage ==
    (permCall.op = "assertPermission" /\ permCall.ret.threw) =>
        /\ Includes(permCall.ret.message, "PERMISSION_DENIED")
        /\ Includes(permCall.ret.message, permCall.role)
        /\ permCall.action # "" => Includes(permCall.ret.message, permCall.action)
        /\ permCall.action = "" => Includes(permCall.ret.message, permCall.permission)

\* assertPermission failed for a viewer, called with an action description
DeniedMessageWitness ==
    /\ permCall.op = "assertPermission" /\ permCall.ret.threw
    /\ permCall.role = "viewer" /\ permCall.permission = "can_delete_components"
    /\ permCall.action = "delete this component"
    /\ permCall.ret.message =
          "PERMISSION_DENIED: viewer role does not have permission to delete this component"

-----------------------------------------------------------------------------
-----------------------------------------------------------------------------
(* C25: when the read of the list, the limit test and the write-back of check *)
(* are separate steps that interleave between threads, concurrent checks on   *)
(* one key can accept more requests inside one window than maxRequests; the   *)
(* excess comes from the interleaving alone: as long as no check on the key   *)
(* has overlapped another, the accepted requests in the window stay within    *)
(* the limit.                                                                 *)
RaceOvershoot ==
    Cardinality(AcceptedIn(now)) > Limiter.maxRequests
        => \E thread \in Threads : inFlight[thread].overlapped

\* maxRequests + 1 requests of the key were accepted inside one window
RaceOvershootWitness ==
    /\ Cardinality(AcceptedIn(now)) = Limiter.maxRequests + 1
    /\ lastOp.op = "check" /\ lastOp.ret.allowed
    /\ \A thread \in Threads : ~Inside(inFlight[thread])

-----------------------------------------------------------------------------
(* C26 as stated: capacity is freed only incrementally.  When the latest call *)
(* on a key was a check rejected with reset instant R and the clock is still  *)
(* before R, a check of the key is rejected too, whatever sweeps and calls on *)
(* other keys came in between; and while an accepted request of the key       *)
(* (since its last reset) is inside the window, the key does not have its     *)
(* full capacity.                                                             *)
RejectedUntilReset ==
    /\ (lastOp.op = "check" /\ ~lastOp.ret.allowed /\ now < lastOp.ret.reset)
          => ~CheckNow(Limiter, Key).allowed
    /\ InWindowAt(now) # {} =>
          StatusNow(Limiter, Key).remaining < Limiter.maxRequests

-----------------------------------------------------------------------------
(* C27: immediately after a check(key) call returns, accepted or rejected,    *)
(* every record stored for the key has its timestamp inside the current       *)
(* window: later than now - windowMs and not later than now.                  *)
RecordsInWindow ==
    /\ \A p \in callers :
          LET records == MapGet(AfterCheck(p), StoreKey(p[1], p[2]))
          IN  \A i \in DOMAIN records :
                  /\ records[i].timestamp > now - p[1].windowMs
                  /\ records[i].timestamp <= now
    /\ (lastOp.op = "check" /\ lastOp.at = now) =>
          LET records == MapGet(rateLimitStore, StoreKey(Limiter, Key))
          IN  \A i \in DOMAIN records :
                  /\ records[i].timestamp > now - Limiter.windowMs
                  /\ records[i].timestamp <= now

\* a check was just accepted on a key of which an earlier accepted request
\* has aged out of the window
RecordsInWindowWitness ==
    /\ lastOp.op = "check" /\ lastOp.at = now /\ lastOp.ret.allowed
    /\ \E i \in DOMAIN accepted : accepted[i] <= now - Limiter.windowMs
    /\ Len(MapGet(rateLimitStore, StoreKey(Limiter, Key))) = 1

-----------------------------------------------------------------------------
(* C28 as stated: every endpoint that proxies to the pub/sub transport checks *)
(* the pusher rate limiter after authenticating the caller and before calling *)
(* the transport: whatever the route and the request, no call of              *)
(* authenticatePresenceChannel or triggerCollaborativeEdit is made for a      *)
(* request whose check returned allowed: false, and none is made without a    *)
(* preceding check for that request.                                          *)
TransportGuarded ==
    /\ \A route \in Routes : \A request \in Requests :
          Guarded(POST(route, rateLimitStore, now, Limiter, request), Transport(route))
    /\ lastOp.op = "POST" => Guarded(lastOp.ret, Transport(lastOp.ret.route))

-----------------------------------------------------------------------------
(* C29 as stated: namespace isolation holds for every pair of (identifier,    *)
(* key) combinations.  When two limiters are constructed with different       *)
(* identifier configurations, or the keys differ, the store keys they use are *)
(* different, and in every reachable state a check made through one leaves   *)
(* what check and getStatus return for the other unchanged.                   *)
NamespacesIsolated ==
    \A a, b \in CollidePairs :
        LET p == <<RateLimiter(a[1]), a[2]>>
            q == <<RateLimiter(b[1]), b[2]>>
        IN  (p \in callers /\ q \in callers
             /\ (a[1].identifier # b[1].identifier \/ a[2] # b[2]))
                => /\ StoreKey(p[1], p[2]) # StoreKey(q[1], q[2])
                   /\ ResultsIn(AfterCheck(p), q) = ResultsIn(rateLimitStore, q)

-----------------------------------------------------------------------------
(* C30: in every reachable state, whatever sequence of check, increment,      *)
(* getStatus, reset and sweep steps led there, every stored key is the store  *)
(* key of a caller's limiter and key, and its record list is non-empty and    *)
(* holds at most maxRequests records of that limiter.                         *)
StoredListsBounded ==
    /\ DOMAIN rateLimitStore \subseteq {StoreKey(p[1], p[2]) : p \in callers}
    /\ \A p \in callers :
          LET storeKey == StoreKey(p[1], p[2])
          IN  storeKey \in DOMAIN rateLimitStore =>
                  /\ Len(rateLimitStore[storeKey]) >= 1
                  /\ Len(rateLimitStore[storeKey]) <= p[1].maxRequests

\* the list of a key is full, one of its records has aged to the hour the
\* sweep keeps, and a check of the key was just rejected
StoredListsBoundedWitness ==
    /\ lastOp.op = "check" /\ lastOp.at = now /\ ~lastOp.ret.allowed
    /\ Len(MapGet(rateLimitStore, StoreKey(Limiter, Key))) = Limiter.maxRequests
    /\ \E k \in DOMAIN rateLimitStore :
          rateLimitStore[k][1].timestamp <= now - OneHour

====
